---- MODULE Spec2Model ----
(***************************************************************************)
(* Model of src/mapGenerator.js: generateMap, setupProjection, applyBounds. *)
(*                                                                         *)
(* JavaScript strings that the code splits, trims, case-folds or parses    *)
(* are sequences of one-character strings; strings the code only passes    *)
(* on (paths, colours) are plain strings.  An optional value is a sequence *)
(* of length 0 (undefined) or 1 (the value).                               *)
(***************************************************************************)
EXTENDS Integers, Sequences, FiniteSets, TLC

\* ------------------------------------------------------------------ bounds

\* The largest number of comma-separated dataset identifiers in a mapdata option.
MaxDatasets == 3

\* The number of generateMap invocations that may be in flight together.
NumCalls == 2

\* ------------------------------------------------------- program constants

WIDTH == 1200

HEIGHT == 800

\* ------------------------------------------------------------ JS strings

None == <<>>

Some(v) == <<v>>

LowerLetters ==
  <<"a","b","c","d","e","f","g","h","i","j","k","l","m",
    "n","o","p","q","r","s","t","u","v","w","x","y","z">>

UpperLetters ==
  <<"A","B","C","D","E","F","G","H","I","J","K","L","M",
    "N","O","P","Q","R","S","T","U","V","W","X","Y","Z">>

Digits == <<"0","1","2","3","4","5","6","7","8","9">>

IndexIn(c, table) ==
  IF \E k \in 1..Len(table) : table[k] = c
  THEN CHOOSE k \in 1..Len(table) : table[k] = c
  ELSE 0

\* String.prototype.toUpperCase, character by character.
toUpperCase(s) ==
  [k \in 1..Len(s) |->
     IF IndexIn(s[k], LowerLetters) > 0
     THEN UpperLetters[IndexIn(s[k], LowerLetters)]
     ELSE s[k]]

\* String.prototype.toLowerCase, character by character.
toLowerCase(s) ==
  [k \in 1..Len(s) |->
     IF IndexIn(s[k], UpperLetters) > 0
     THEN LowerLetters[IndexIn(s[k], UpperLetters)]
     ELSE s[k]]

RECURSIVE trimStart(_)
trimStart(s) ==
  IF s /= <<>> /\ Head(s) = " " THEN trimStart(Tail(s)) ELSE s

RECURSIVE trimEnd(_)
trimEnd(s) ==
  IF s /= <<>> /\ s[Len(s)] = " " THEN trimEnd(SubSeq(s, 1, Len(s) - 1)) ELSE s

\* String.prototype.trim.
trim(s) == trimEnd(trimStart(s))

\* String.prototype.split(','): always at least one piece, "" gives [""].
RECURSIVE split(_, _)
split(s, sep) ==
  IF \A k \in 1..Len(s) : s[k] /= sep
  THEN <<s>>
  ELSE LET k == CHOOSE k \in 1..Len(s) :
                  s[k] = sep /\ \A j \in 1..(k - 1) : s[j] /= sep
       IN  <<SubSeq(s, 1, k - 1)>> \o split(SubSeq(s, k + 1, Len(s)), sep)

\* ------------------------------------------------------------ JS numbers

\* A JS value that Number() or a destructuring produces.
Num(n) == [kind |-> "number", val |-> n]

NaN == [kind |-> "NaN", val |-> 0]

Undefined == [kind |-> "undefined", val |-> 0]

RECURSIVE DecimalValue(_)
DecimalValue(ds) ==
  IF ds = <<>> THEN 0
  ELSE 10 * DecimalValue(SubSeq(ds, 1, Len(ds) - 1))
       + (IndexIn(ds[Len(ds)], Digits) - 1)

AllDigits(ds) == ds /= <<>> /\ \A k \in 1..Len(ds) : IndexIn(ds[k], Digits) > 0

\* Number(string) on strings of digits, letters, signs, blanks and commas:
\* white space is trimmed, the empty string is 0, an optionally signed run
\* of digits is its value, anything else is NaN.
Number(s) ==
  LET t == trim(s) IN
  IF t = <<>> THEN Num(0)
  ELSE IF Head(t) = "-" /\ AllDigits(Tail(t)) THEN Num(0 - DecimalValue(Tail(t)))
  ELSE IF Head(t) = "+" /\ AllDigits(Tail(t)) THEN Num(DecimalValue(Tail(t)))
  ELSE IF AllDigits(t) THEN Num(DecimalValue(t))
  ELSE NaN

\* isNaN(x): true of NaN and of undefined (Number(undefined) is NaN).
isNaN(x) == x.kind /= "number"

\* const [a, b, ...] = list: the k-th element, undefined beyond the end.
At(list, k) == IF k <= Len(list) THEN list[k] ELSE Undefined

\* str.split(',').map(Number)
splitNumbers(s) ==
  LET parts == split(s, ",") IN [k \in 1..Len(parts) |-> Number(parts[k])]

\* ------------------------------------------------------- setupProjection

NoError == <<>>

\* UnsupportedMessage naming the folded identifier instead of the given one.
UnsupportedMessageFolded(projectionType) ==
  <<"Unsupported projection type: ">> \o toUpperCase(projectionType)

\* new Error(`Unsupported projection type: ${projectionType}`)
UnsupportedMessage(projectionType) ==
  <<"Unsupported projection type: ">> \o projectionType

\* geoWaterman().scale(WIDTH / 10).translate([WIDTH / 2, HEIGHT / 2])
WatermanProjection ==
  [type |-> "Waterman",
   scale |-> <<"scale", WIDTH \div 10>>,
   translate |-> <<"translate", WIDTH \div 2, HEIGHT \div 2>>,
   rotateCalls |-> <<>>,
   fitExtentCalls |-> <<>>]

\* geoWinkel3().scale(WIDTH / 6).translate([WIDTH / 2, HEIGHT / 2])
Winkel3Projection ==
  [type |-> "Winkel3",
   scale |-> <<"scale", WIDTH \div 6>>,
   translate |-> <<"translate", WIDTH \div 2, HEIGHT \div 2>>,
   rotateCalls |-> <<>>,
   fitExtentCalls |-> <<>>]

\* The value of proj where no projection was built.
NoProjection ==
  [type |-> "none", scale |-> <<>>, translate |-> <<>>,
   rotateCalls |-> <<>>, fitExtentCalls |-> <<>>]

\* proj.rotate([lon, lat, 0])
RotateArgs(lat, lon) == <<lon.val, lat.val, 0>>

\* applyCenter rotating when either component parses.
applyCenterEither(proj, center) ==
  IF center = None \/ center[1] = <<>>
  THEN proj
  ELSE LET nums == splitNumbers(center[1])
           lat  == At(nums, 1)
           lon  == At(nums, 2)
       IN  IF ~isNaN(lat) \/ ~isNaN(lon)
           THEN [proj EXCEPT !.rotateCalls = Append(@, RotateArgs(lat, lon))]
           ELSE proj

\* The center block: if (center) { ...; if (!isNaN(lat) && !isNaN(lon)) rotate }
applyCenter(proj, center) ==
  IF center = None \/ center[1] = <<>>
  THEN proj
  ELSE LET nums == splitNumbers(center[1])
           lat  == At(nums, 1)
           lon  == At(nums, 2)
       IN  IF ~isNaN(lat) /\ ~isNaN(lon)
           THEN [proj EXCEPT !.rotateCalls = Append(@, RotateArgs(lat, lon))]
           ELSE proj

\* selectProjection comparing the identifier as given, without folding its case.
selectProjectionCaseSensitive(projectionType) ==
  IF projectionType = <<"W", "B">>
  THEN [threw |-> NoError, proj |-> WatermanProjection]
  ELSE IF projectionType = <<"W", "3">>
  THEN [threw |-> NoError, proj |-> Winkel3Projection]
  ELSE [threw |-> UnsupportedMessage(projectionType), proj |-> NoProjection]

\* The switch on projectionType.toUpperCase().
selectProjection(projectionType) ==
  LET key == toUpperCase(projectionType) IN
  IF key = <<"W", "B">> THEN [threw |-> NoError, proj |-> WatermanProjection]
  ELSE IF key = <<"W", "3">> THEN [threw |-> NoError, proj |-> Winkel3Projection]
  ELSE [threw |-> UnsupportedMessage(projectionType), proj |-> NoProjection]

\* setupProjection(projectionType, center): what it throws and returns.
setupProjection(projectionType, center) ==
  LET sel == selectProjection(projectionType) IN
  IF sel.threw /= NoError THEN sel
  ELSE [threw |-> NoError, proj |-> applyCenter(sel.proj, center)]

\* ----------------------------------------------------------- applyBounds

InvalidBoundsMessage ==
  <<"Invalid bounds format. Expected: minLat,maxLat,minLon,maxLon">>

\* The coordinates of the boundingBox polygon, in (lon, lat) order.
BoundingRing(minLat, maxLat, minLon, maxLon) ==
  << <<minLon.val, minLat.val>>, <<minLon.val, maxLat.val>>,
     <<maxLon.val, maxLat.val>>, <<maxLon.val, minLat.val>>,
     <<minLon.val, minLat.val>> >>

\* projection.fitExtent([[0, 0], [WIDTH, HEIGHT]], boundingBox): the library
\* replaces scale and translate by values it computes from the fit.
fitExtent(proj, ring) ==
  [proj EXCEPT !.scale = <<"fitExtent">>,
               !.translate = <<"fitExtent">>,
               !.fitExtentCalls =
                  Append(@, [extent |-> <<0, 0, WIDTH, HEIGHT>>, ring |-> ring])]

\* someNaN looking only at the components the string has.
someNaNGiven(nums) == \E k \in 1..Len(nums) : isNaN(nums[k])

\* [minLat, maxLat, minLon, maxLon].some(isNaN)
someNaN(nums) == \E k \in 1..4 : isNaN(At(nums, k))

\* applyBounds(projection, bounds): what it throws and the projection after.
applyBounds(projection, bounds) ==
  LET nums == splitNumbers(bounds) IN
  IF someNaN(nums)
  THEN [threw |-> InvalidBoundsMessage, proj |-> projection]
  ELSE [threw |-> NoError,
        proj |-> fitExtent(projection,
                   BoundingRing(At(nums, 1), At(nums, 2), At(nums, 3), At(nums, 4)))]

\* -------------------------------------------------------------- options

\* const { projection = 'WB', mapdata = '50mcoastline', output = 'map.svg',
\*         center, bounds } = options
DefaultProjection == <<"W", "B">>

DefaultMapdata == <<"5", "0", "m", "c", "o", "a", "s", "t", "l", "i", "n", "e">>

DefaultOutput == "map.svg"

OrDefault(opt, default) == IF opt = None THEN default ELSE opt[1]

\* outputPath ignoring the output option.
outputPathFixed(o) == DefaultOutput

\* The output path of a call with these options.
outputPath(o) == OrDefault(o.output, DefaultOutput)

DEFAULT_STYLES ==
  [linethickness |-> "1",
   linecolor |-> "black",
   outlinethickness |-> "0.5",
   outlinecolor |-> "black",
   showgraticules |-> <<"t", "r", "u", "e">>,
   background |-> "white"]

\* mergeStyles with the spreads in the other order: the defaults win.
mergeStylesDefaultsWin(defaults, overrides) ==
  [key \in (DOMAIN defaults) \cup (DOMAIN overrides) |->
     IF key \in DOMAIN defaults THEN defaults[key] ELSE overrides[key]]

\* { ...defaults, ...overrides }: the keys of overrides win.
mergeStyles(defaults, overrides) ==
  [key \in (DOMAIN defaults) \cup (DOMAIN overrides) |->
     IF key \in DOMAIN overrides THEN overrides[key] ELSE defaults[key]]

\* parseDatasets without the trim.
parseDatasetsUntrimmed(mapdata) == split(mapdata, ",")

\* mapdata.split(',').map(d => d.trim())
parseDatasets(mapdata) ==
  LET parts == split(mapdata, ",") IN [k \in 1..Len(parts) |-> trim(parts[k])]

\* ------------------------------------------------------------- document

\* An element of the SVG document, with the attributes the code sets.
Element(tag, parent) ==
  [tag |-> tag, parent |-> parent, id |-> "", href |-> "", datum |-> <<>>,
   d |-> <<>>, clipPath |-> "", fill |-> "", stroke |-> "",
   strokeWidth |-> "", dashArray |-> ""]

\* geoPath().projection(proj) applied to a datum: the path data depend on
\* the projection as it is when the attribute is set.
pathData(proj) == <<proj>>

SphereDatum == <<"Sphere">>

GraticuleDatum == <<"graticule", "15", "15">>

\* defs > path#sphere
SpherePath(proj) ==
  [Element("path", "defs") EXCEPT
     !.datum = SphereDatum, !.id = "sphere", !.d = pathData(proj)]

\* defs > clipPath#clip
ClipPath == [Element("clipPath", "defs") EXCEPT !.id = "clip"]

\* defs > clipPath#clip > use
ClipUse == [Element("use", "clipPath") EXCEPT !.href = "#sphere"]

\* svg > use: the background
Background(styles) ==
  [Element("use", "svg") EXCEPT
     !.href = "#sphere", !.fill = styles.background,
     !.stroke = styles.outlinecolor, !.strokeWidth = styles.outlinethickness]

\* svg > path: the graticule
GraticulePath(proj) ==
  [Element("path", "svg") EXCEPT
     !.datum = GraticuleDatum, !.d = pathData(proj),
     !.clipPath = "url(#clip)", !.fill = "none", !.stroke = "#666",
     !.strokeWidth = "0.5", !.dashArray = "2,2"]

\* svg > path: one dataset
DatasetPath(proj, styles, mapData) ==
  [Element("path", "svg") EXCEPT
     !.datum = mapData, !.d = pathData(proj),
     !.clipPath = "url(#clip)", !.fill = "none",
     !.stroke = styles.linecolor, !.strokeWidth = styles.linethickness]

\* styles.showgraticules.toLowerCase() === 'true'
graticulesShown(styles) ==
  toLowerCase(styles.showgraticules) = <<"t", "r", "u", "e">>

\* The elements appended between the projection setup and the dataset loop.
baseDocument(proj, styles) ==
  <<SpherePath(proj), ClipPath, ClipUse, Background(styles)>>
  \o (IF graticulesShown(styles) THEN <<GraticulePath(proj)>> ELSE <<>>)

\* createSVG(WIDTH, HEIGHT).attr('viewBox', ...): the root element's tags
SvgOpen ==
  [Element("svg", "") EXCEPT !.datum = <<"viewBox", "0", "0", "1200", "800">>]

SvgClose == Element("/svg", "")

\* d3n.svgString(): the document as text, the root's tags around its children.
svgString(svg) == <<SvgOpen>> \o svg \o <<SvgClose>>

\* The geometry loadDataset resolves to for an identifier.
GeoData(dataset) == <<"geojson">> \o dataset

\* The errors loadDataset may reject with.
LoadErrors == { <<"LoadError: unknown dataset">>, <<"LoadError: read failed">> }

\* The errors fs.writeFile may reject with.
WriteErrors == { <<"EACCES: permission denied">> }

\* ----------------------------------------------------------------- state

VARIABLES
  calls,   \* per invocation of generateMap: its argument, locals and position
  fs       \* the file system: path -> file

vars == <<calls, fs>>

Calls == 1..NumCalls

Paths == {"map.svg", "out.svg"}

AbsentFile == [exists |-> FALSE, data |-> <<>>]

\* A file left by an earlier run.
OldFile == [exists |-> TRUE, data |-> <<Element("old", "")>>]

InitialFs == [p \in Paths |-> IF p = DefaultOutput THEN OldFile ELSE AbsentFile]

NoOptions ==
  [projection |-> None, mapdata |-> None, output |-> None,
   center |-> None, bounds |-> None, styles |-> None]

\* The locals of one invocation before its first statement.
\* pc: "notcalled", "idle" (called, not yet run), "loading" (awaiting
\* loadDataset), "writeOpen", "writeData", "writeClose" (awaiting
\* fs.writeFile), "returned", "rejected".
NewFrame(o, pc) ==
  [pc |-> pc, options |-> o, datasets |-> <<>>, styles |-> <<>>,
   projSetup |-> [threw |-> NoError, proj |-> NoProjection],
   setupCalls |-> 0, boundsCalls |-> <<>>, proj |-> NoProjection,
   svg |-> <<>>, k |-> 0, loads |-> <<>>, svgStringCalls |-> 0,
   svgContent |-> <<>>, writeCalls |-> <<>>, result |-> <<>>]

\* --------------------------------------------------------------- inputs

RECURSIVE joinComma(_)
joinComma(parts) ==
  IF Len(parts) = 1 THEN parts[1]
  ELSE parts[1] \o <<",">> \o joinComma(Tail(parts))

\* Dataset identifiers as a caller writes them, with and without blanks.
DatasetInputs == << <<"a">>, <<" ", "b", " ">>, <<"c", " ">> >>

\* The list of n identifiers that starts at the given place of DatasetInputs.
datasetList(n, from) ==
  [k \in 1..n |-> DatasetInputs[((from + k - 2) % Len(DatasetInputs)) + 1]]

MapdataInputs ==
  {None} \cup
  { Some(joinComma(datasetList(n, from))) : n \in 1..MaxDatasets, from \in 1..2 }

ProjectionInputs ==
  { None, Some(<<"W", "B">>), Some(<<"w", "b">>), Some(<<"W", "3">>),
    Some(<<"w", "3">>), Some(<<"W", "b">>), Some(<<"m", "e", "r", "c">>), Some(<<"W", "b", " ">>) }

CenterInputs ==
  { None, Some(<<>>),
    Some(<<"1", "0", ",", "2", "0">>),
    Some(<<"a", "b", "c", ",", "5", "0">>),
    Some(<<"5", "0">>),
    Some(<<"-", "5", ",">>) }

BoundsInputs ==
  { None, Some(<<>>),
    Some(<<"1", "0", ",", "2", "0", ",", "3", "0", ",", "4", "0">>),
    Some(<<"1", "0", ",", "x", ",", "3", "0", ",", "4", "0">>),
    Some(<<"1", "0", ",", "2", "0", ",", "3", "0">>),
    Some(<<"1", ",", ",", " ", "3", ",", "4", ",", "x">>) }

StylesInputs ==
  { None, Some(<<>>),
    Some([showgraticules |-> <<"f", "a", "l", "s", "e">>]),
    Some([showgraticules |-> <<"F", "a", "L", "S", "E">>, linethickness |-> "2"]),
    Some([showgraticules |-> <<"t", "r", "u", "e">>]),
    Some([showgraticules |-> <<"T", "R", "U", "E">>, linecolor |-> "red"]),
    Some([showgraticules |-> <<"n", "o">>]),
    Some([linecolor |-> "red", background |-> "blue"]) }

OutputInputs == { None, Some("out.svg") }

\* The arguments of a single call.
OptionsInputs ==
  [projection : ProjectionInputs, mapdata : MapdataInputs,
   output : OutputInputs, center : CenterInputs, bounds : BoundsInputs,
   styles : StylesInputs]

\* The arguments of calls that run together: what decides the documents'
\* lengths and the files they go to.
ConcurrentInputs ==
  [projection : {None},
   mapdata : { Some(<<"a">>), Some(<<"a", ",", " ", "b">>) },
   output : OutputInputs, center : {None}, bounds : {None}, styles : {None}]

\* ----------------------------------------------------------- generateMap

\* A throw out of the async function: its promise rejects with the error.
throw(frame, err) == [frame EXCEPT !.pc = "rejected", !.result = err]

\* issueLoads starting every load on entering the first iteration.
issueLoadsTogether(datasets, k) ==
  IF k = 1
  THEN [j \in 1..Len(datasets) |->
          [index |-> j, dataset |-> datasets[j], status |-> "pending"]]
  ELSE <<>>

\* The loadDataset calls made on entering iteration k of the for-of loop.
issueLoads(datasets, k) ==
  << [index |-> k, dataset |-> datasets[k], status |-> "pending"] >>

\* for (const dataset of datasets) { const mapData = await loadDataset(dataset)
enterLoop(frame, k) ==
  [frame EXCEPT !.pc = "loading", !.k = k,
                !.loads = @ \o issueLoads(frame.datasets, k)]

\* const svgContent = d3n.svgString(); await fs.writeFile(output, svgContent, 'utf8')
afterLoop(frame) ==
  LET content == svgString(frame.svg) IN
  [frame EXCEPT !.pc = "writeOpen",
                !.svgStringCalls = @ + 1,
                !.svgContent = content,
                !.writeCalls =
                   Append(@, [path |-> outputPath(frame.options), data |-> content])]

\* if (bounds) applyBounds(proj, bounds)
boundsStep(proj, bounds) ==
  IF bounds = None \/ bounds[1] = <<>>
  THEN [threw |-> NoError, proj |-> proj, calls |-> <<>>]
  ELSE LET r == applyBounds(proj, bounds[1])
       IN  [threw |-> r.threw, proj |-> r.proj, calls |-> <<bounds[1]>>]

\* generateMap(options) from its first statement to its first await, or to
\* the throw of setupProjection or applyBounds.
generateMap(o) ==
  LET projection == OrDefault(o.projection, DefaultProjection)
      mapdata    == OrDefault(o.mapdata, DefaultMapdata)
      styles     == mergeStyles(DEFAULT_STYLES, OrDefault(o.styles, <<>>))
      setup      == setupProjection(projection, o.center)
      f0         == [NewFrame(o, "idle") EXCEPT
                       !.datasets = parseDatasets(mapdata),
                       !.styles = styles,
                       !.setupCalls = 1,
                       !.projSetup = setup,
                       !.proj = setup.proj]
  IN  IF setup.threw /= NoError THEN throw(f0, setup.threw)
      ELSE LET b  == boundsStep(setup.proj, o.bounds)
               f1 == [f0 EXCEPT !.boundsCalls = b.calls, !.proj = b.proj]
           IN  IF b.threw /= NoError THEN throw(f1, b.threw)
               ELSE enterLoop([f1 EXCEPT !.svg = baseDocument(b.proj, styles)], 1)

\* The continuation of the await in the loop, loadDataset having resolved:
\* append the dataset's path, then the next iteration or the code after the loop.
loadResolved(frame, mapData) ==
  LET f == [frame EXCEPT
              !.loads[frame.k].status = "resolved",
              !.svg = Append(@, DatasetPath(frame.proj, frame.styles, mapData))]
  IN  IF frame.k < Len(frame.datasets) THEN enterLoop(f, frame.k + 1)
      ELSE afterLoop(f)

\* loadRejected with the error caught and the loop going on.
loadRejectedSwallowed(frame, err) ==
  LET f == [frame EXCEPT !.loads[frame.k].status = "rejected"]
  IN  IF frame.k < Len(frame.datasets) THEN enterLoop(f, frame.k + 1)
      ELSE afterLoop(f)

\* The continuation of the await in the loop, loadDataset having rejected:
\* nothing catches the error.
loadRejected(frame, err) ==
  throw([frame EXCEPT !.loads[frame.k].status = "rejected"], err)

\* writeResolved returning a second serialization of the document.
writeResolvedReserialized(frame) ==
  [frame EXCEPT !.pc = "returned",
                !.svgStringCalls = @ + 1,
                !.result = svgString(frame.svg)]

\* return svgContent
writeResolved(frame) ==
  [frame EXCEPT !.pc = "returned", !.result = frame.svgContent]

\* A write at position 0 of a file: what lies beyond the data stays.
overwrite(old, data) == data \o SubSeq(old, Len(data) + 1, Len(old))

\* --------------------------------------------------------------- actions

GenerateMap(i) ==
  /\ calls[i].pc = "idle"
  /\ calls' = [calls EXCEPT ![i] = generateMap(calls[i].options)]
  /\ UNCHANGED fs

LoadDatasetResolve(i) ==
  /\ calls[i].pc = "loading"
  /\ calls' = [calls EXCEPT ![i] =
                 loadResolved(calls[i], GeoData(calls[i].datasets[calls[i].k]))]
  /\ UNCHANGED fs

LoadDatasetReject(i) ==
  /\ calls[i].pc = "loading"
  /\ \E err \in LoadErrors :
       calls' = [calls EXCEPT ![i] = loadRejected(calls[i], err)]
  /\ UNCHANGED fs

\* fs.writeFile opens the file with flag 'w': created or truncated.
WriteFileOpen(i) ==
  /\ calls[i].pc = "writeOpen"
  /\ fs' = [fs EXCEPT ![calls[i].writeCalls[1].path] =
              [exists |-> TRUE, data |-> <<>>]]
  /\ calls' = [calls EXCEPT ![i].pc = "writeData"]

\* fs.writeFile writes the data from the start of the file it opened.
WriteFileData(i) ==
  /\ calls[i].pc = "writeData"
  /\ fs' = [fs EXCEPT ![calls[i].writeCalls[1].path].data =
              overwrite(@, calls[i].writeCalls[1].data)]
  /\ calls' = [calls EXCEPT ![i].pc = "writeClose"]

\* fs.writeFile closes the file and resolves; generateMap returns.
WriteFileResolve(i) ==
  /\ calls[i].pc = "writeClose"
  /\ calls' = [calls EXCEPT ![i] = writeResolved(calls[i])]
  /\ UNCHANGED fs

\* fs.writeFile rejects, whatever it has done to the file so far.
WriteFileReject(i) ==
  /\ calls[i].pc \in {"writeOpen", "writeData", "writeClose"}
  /\ \E err \in WriteErrors :
       calls' = [calls EXCEPT ![i] = throw(calls[i], err)]
  /\ UNCHANGED fs

Init ==
  /\ \E o \in OptionsInputs :
       calls = [i \in Calls |->
                  IF i = 1 THEN NewFrame(o, "idle")
                  ELSE NewFrame(NoOptions, "notcalled")]
  /\ fs = InitialFs

InitConcurrent ==
  /\ calls \in [Calls -> { NewFrame(o, "idle") : o \in ConcurrentInputs }]
  /\ fs = InitialFs

Next ==
  \E i \in Calls :
    \/ GenerateMap(i)
    \/ LoadDatasetResolve(i)
    \/ LoadDatasetReject(i)
    \/ WriteFileOpen(i)
    \/ WriteFileData(i)
    \/ WriteFileResolve(i)
    \/ WriteFileReject(i)

\* One call of generateMap, over the whole range of arguments.
Spec == Init /\ [][Next]_vars

\* NumCalls calls of generateMap in flight together.
SpecConcurrent == InitConcurrent /\ [][Next]_vars

\* ---------------------------------------------------------------- claims

\* The spellings of the two supported identifiers.
SpellingsOfWB == { <<"W", "B">>, <<"w", "b">>, <<"W", "b">>, <<"w", "B">> }

SpellingsOfW3 == { <<"W", "3">>, <<"w", "3">> }

\* The calls whose setupProjection has run on an identifier the caller gave.
SetupRan(f) == f.setupCalls = 1 /\ f.options.projection /= None

\* C1: for every identifier that is WB or W3 up to letter case, setupProjection
\* does not throw and returns a projection translated to (600, 400), of
\* scale 120 for WB (the Waterman projection) and 200 for W3 (Winkel Tripel).
C1_SupportedProjection ==
  \A i \in Calls :
    LET f == calls[i] IN
    SetupRan(f) =>
      /\ f.options.projection[1] \in SpellingsOfWB =>
           /\ f.projSetup.threw = NoError
           /\ f.projSetup.proj.type = "Waterman"
           /\ f.projSetup.proj.scale = <<"scale", 120>>
           /\ f.projSetup.proj.translate = <<"translate", 600, 400>>
      /\ f.options.projection[1] \in SpellingsOfW3 =>
           /\ f.projSetup.threw = NoError
           /\ f.projSetup.proj.type = "Winkel3"
           /\ f.projSetup.proj.scale = <<"scale", 200>>
           /\ f.projSetup.proj.translate = <<"translate", 600, 400>>

\* A lower-case "w3" has been set up as Winkel Tripel at scale 200.
C1_Witness ==
  \E i \in Calls :
    /\ SetupRan(calls[i])
    /\ calls[i].options.projection[1] = <<"w", "3">>
    /\ calls[i].projSetup.proj.scale = <<"scale", 200>>
    /\ calls[i].pc = "loading"

\* C2: for every identifier that is neither WB nor W3 up to letter case,
\* setupProjection throws, and generateMap rejects with, the error whose
\* message is "Unsupported projection type: " followed by the identifier as
\* given, whatever center and bounds are.
C2_UnsupportedProjection ==
  \A i \in Calls :
    LET f == calls[i] IN
    (SetupRan(f) /\ f.options.projection[1] \notin SpellingsOfWB \cup SpellingsOfW3) =>
      /\ f.projSetup.threw =
           <<"Unsupported projection type: ">> \o f.options.projection[1]
      /\ f.pc = "rejected"
      /\ f.result = f.projSetup.threw

\* "Wb " (a blank after it) was rejected under its own spelling, with a center
\* and bounds that are both well formed.
C2_Witness ==
  \E i \in Calls :
    /\ calls[i].pc = "rejected"
    /\ calls[i].options.projection = Some(<<"W", "b", " ">>)
    /\ calls[i].result = <<"Unsupported projection type: ", "W", "b", " ">>
    /\ calls[i].options.center = Some(<<"1", "0", ",", "2", "0">>)
    /\ calls[i].options.bounds =
         Some(<<"1", "0", ",", "2", "0", ",", "3", "0", ",", "4", "0">>)

\* Whether one of the four components of a bounds string is missing or is
\* not a number to Number().
BadBounds(b) ==
  LET parts == split(b, ",") IN
  \E k \in 1..4 : k > Len(parts) \/ Number(parts[k]).kind = "NaN"

\* The scale and translate setupProjection gives the projection it returns.
AsSetUp(proj) ==
  /\ proj.scale = <<"scale", IF proj.type = "Waterman" THEN 120 ELSE 200>>
  /\ proj.translate = <<"translate", 600, 400>>

\* C3: when applyBounds is called, it throws the invalid-bounds error if one
\* of the four components is missing or not a number, leaving scale and
\* translate as setupProjection set them, and otherwise it raises nothing
\* and fits the extent once.
C3_InvalidBounds ==
  \A i \in Calls :
    LET f == calls[i] IN
    f.boundsCalls /= <<>> =>
      /\ f.boundsCalls = <<f.options.bounds[1]>>
      /\ BadBounds(f.boundsCalls[1]) =>
           /\ f.pc = "rejected"
           /\ f.result =
                <<"Invalid bounds format. Expected: minLat,maxLat,minLon,maxLon">>
           /\ f.proj.fitExtentCalls = <<>>
           /\ AsSetUp(f.proj)
           /\ f.proj = f.projSetup.proj
      /\ ~BadBounds(f.boundsCalls[1]) =>
           /\ Len(f.proj.fitExtentCalls) = 1
           /\ f.proj.fitExtentCalls[1].extent = <<0, 0, 1200, 800>>
           /\ f.pc /= "idle"
           /\ f.pc = "rejected" => f.loads /= <<>>

\* "10,20,30" (no maxLon) was rejected on a Winkel Tripel projection that
\* keeps scale 200.
C3_Witness ==
  \E i \in Calls :
    /\ calls[i].boundsCalls = << <<"1", "0", ",", "2", "0", ",", "3", "0">> >>
    /\ calls[i].pc = "rejected"
    /\ calls[i].result = InvalidBoundsMessage
    /\ calls[i].proj.type = "Winkel3"
    /\ calls[i].proj.scale = <<"scale", 200>>

\* Whether both components of a center string are numbers to Number().
BothParse(c) ==
  LET parts == split(c, ",") IN
  /\ Len(parts) >= 2
  /\ Number(parts[1]).kind = "number"
  /\ Number(parts[2]).kind = "number"

\* C4: for a supported projection and a center string, setupProjection raises
\* nothing; it calls rotate once, with [lon, lat, 0], when both components
\* parse, and never when one of them does not.
C4_CenterLeniency ==
  \A i \in Calls :
    LET f == calls[i]
        c == f.options.center
    IN  (f.setupCalls = 1 /\ f.projSetup.proj.type /= "none" /\ c /= None) =>
          /\ f.projSetup.threw = NoError
          /\ f.proj.rotateCalls = f.projSetup.proj.rotateCalls
          /\ ~BothParse(c[1]) => f.proj.rotateCalls = <<>>
          /\ BothParse(c[1]) =>
               f.proj.rotateCalls =
                 << <<Number(split(c[1], ",")[2]).val,
                      Number(split(c[1], ",")[1]).val, 0>> >>
          /\ c[1] = <<"1", "0", ",", "2", "0">> =>
               f.proj.rotateCalls = << <<20, 10, 0>> >>
          /\ c[1] \in { <<"a", "b", "c", ",", "5", "0">>, <<"5", "0">> } =>
               f.proj.rotateCalls = <<>>

\* "abc,50" went through setupProjection without an error and without a
\* rotation, and the render went on.
C4_Witness ==
  \E i \in Calls :
    /\ calls[i].options.center = Some(<<"a", "b", "c", ",", "5", "0">>)
    /\ calls[i].projSetup.threw = NoError
    /\ calls[i].projSetup.proj.type = "Waterman"
    /\ calls[i].proj.rotateCalls = <<>>
    /\ calls[i].pc = "returned"

\* The children of the root element in a serialized document.
ChildrenOf(content) == SubSeq(content, 2, Len(content) - 1)

IsDatasetPath(e) ==
  e.tag = "path" /\ e.parent = "svg" /\ e.datum /= <<>> /\ e.datum[1] = "geojson"

IsGraticulePath(e) ==
  e.tag = "path" /\ e.parent = "svg" /\ e.datum = <<"graticule", "15", "15">>

\* The identifiers the dataset paths of a document were drawn from, in order.
DatasetIdsOf(doc) ==
  LET paths == SelectSeq(doc, IsDatasetPath)
  IN  [k \in 1..Len(paths) |-> Tail(paths[k].datum)]

IsBlank(c) == c = " "

IsNotBlank(c) == c /= " "

IsComma(c) == c = ","

\* The mapdata string a call works on.
MapdataOf(f) ==
  IF f.options.mapdata = None
  THEN <<"5", "0", "m", "c", "o", "a", "s", "t", "l", "i", "n", "e">>
  ELSE f.options.mapdata[1]

\* C5: the document a successful generateMap returns has one dataset path per
\* comma-separated piece of mapdata, the k-th path from the k-th piece without
\* its surrounding blanks, all of them after the sphere definition, the clip
\* path, the background and the graticule path if there is one.
C5_DatasetPathsInOrder ==
  \A i \in Calls :
    LET f    == calls[i]
        doc  == ChildrenOf(f.result)
        ids  == DatasetIdsOf(doc)
        n    == Len(SelectSeq(MapdataOf(f), IsComma)) + 1
        base == Len(doc) - n
    IN  f.pc = "returned" =>
          /\ Len(ids) = n
          /\ joinComma(ids) = SelectSeq(MapdataOf(f), IsNotBlank)
          /\ \A k \in 1..n : SelectSeq(ids[k], IsBlank) = <<>>
          /\ \A k \in 1..Len(doc) : IsDatasetPath(doc[k]) <=> k > base
          /\ base \in {4, 5}
          /\ doc[1].id = "sphere" /\ doc[1].parent = "defs"
          /\ doc[2].id = "clip" /\ doc[2].parent = "defs"
          /\ doc[3].tag = "use" /\ doc[3].parent = "clipPath"
          /\ doc[4].tag = "use" /\ doc[4].parent = "svg"
          /\ base = 5 => IsGraticulePath(doc[5])

\* "a, b ,c " was rendered with a graticule: paths a, b, c at places 6, 7, 8.
C5_Witness ==
  \E i \in Calls :
    /\ calls[i].pc = "returned"
    /\ calls[i].options.mapdata =
         Some(<<"a", ",", " ", "b", " ", ",", "c", " ">>)
    /\ Len(ChildrenOf(calls[i].result)) = 8
    /\ DatasetIdsOf(ChildrenOf(calls[i].result)) = << <<"a">>, <<"b">>, <<"c">> >>

\* Spellings of "false" and of "true" a caller may give.
SpellingsOfFalse ==
  { <<"f", "a", "l", "s", "e">>, <<"F", "A", "L", "S", "E">>,
    <<"F", "a", "L", "S", "E">>, <<"F", "a", "l", "s", "e">> }

GraticuleCount(doc) == Len(SelectSeq(doc, IsGraticulePath))

\* C6: the returned document has no graticule path when styles.showgraticules
\* is "false" in any letter case, and exactly one when there are no styles,
\* no showgraticules key among them, or the value "true".
C6_GraticuleSwitch ==
  \A i \in Calls :
    LET f   == calls[i]
        st  == f.options.styles
        doc == ChildrenOf(f.result)
    IN  f.pc = "returned" =>
          /\ (st /= None /\ "showgraticules" \in DOMAIN st[1]
                /\ st[1].showgraticules \in SpellingsOfFalse)
               => GraticuleCount(doc) = 0
          /\ (st = None \/ "showgraticules" \notin DOMAIN st[1])
               => GraticuleCount(doc) = 1
          /\ (st /= None /\ "showgraticules" \in DOMAIN st[1]
                /\ st[1].showgraticules = <<"t", "r", "u", "e">>)
               => GraticuleCount(doc) = 1

\* showgraticules "FaLSE" gave a document with no graticule path.
C6_Witness ==
  \E i \in Calls :
    /\ calls[i].pc = "returned"
    /\ calls[i].options.styles /= None
    /\ "showgraticules" \in DOMAIN calls[i].options.styles[1]
    /\ calls[i].options.styles[1].showgraticules = <<"F", "a", "L", "S", "E">>
    /\ GraticuleCount(ChildrenOf(calls[i].result)) = 0

Pending(f) == { j \in 1..Len(f.loads) : f.loads[j].status = "pending" }

\* C7: in one call at most one loadDataset is outstanding; the loads are those
\* of the datasets in list order; and the load of dataset j+1 is started only
\* once the load of dataset j has resolved and j dataset paths are in the
\* document.
C7_SequentialLoads ==
  \A i \in Calls :
    LET f == calls[i] IN
    /\ Cardinality(Pending(f)) <= 1
    /\ Len(f.loads) <= Len(f.datasets)
    /\ \A j \in 1..Len(f.loads) :
         /\ f.loads[j].dataset = f.datasets[j]
         /\ j > 1 =>
              /\ f.loads[j - 1].status = "resolved"
              /\ Len(SelectSeq(f.svg, IsDatasetPath)) >= j - 1
              /\ DatasetIdsOf(f.svg)[j - 1] = f.datasets[j - 1]

\* The third of three loads is outstanding, two paths are in the document.
C7_Witness ==
  \E i \in Calls :
    /\ calls[i].pc = "loading"
    /\ Len(calls[i].loads) = 3
    /\ Pending(calls[i]) = {3}
    /\ Len(SelectSeq(calls[i].svg, IsDatasetPath)) = 2

\* The path a call is to write, as its caller gave it.
OutputOf(f) ==
  IF f.options.output = None THEN "map.svg" ELSE f.options.output[1]

\* C8: a call serializes its document once, after the path of the last
\* dataset is appended; that string is the data of its one writeFile call,
\* made on the output path, and the value the call returns.
C8_SerializedOnce ==
  \A i \in Calls :
    LET f == calls[i] IN
    /\ f.pc \in {"notcalled", "idle", "loading"} =>
         f.svgStringCalls = 0 /\ f.writeCalls = <<>>
    /\ f.pc = "rejected" => f.svgStringCalls <= 1 /\ Len(f.writeCalls) <= 1
    /\ f.pc \in {"writeOpen", "writeData", "writeClose", "returned"} =>
         /\ f.svgStringCalls = 1
         /\ Len(f.writeCalls) = 1
         /\ f.writeCalls[1].path = OutputOf(f)
         /\ f.writeCalls[1].data = f.svgContent
         /\ ChildrenOf(f.svgContent) = f.svg
         /\ Len(SelectSeq(f.svgContent, IsDatasetPath)) = Len(f.datasets)
         /\ \A j \in 1..Len(f.loads) : f.loads[j].status = "resolved"
    /\ f.pc = "returned" => f.result = f.writeCalls[1].data

\* A call returned the document it wrote to out.svg, three dataset paths in it.
C8_Witness ==
  \E i \in Calls :
    /\ calls[i].pc = "returned"
    /\ calls[i].writeCalls[1].path = "out.svg"
    /\ fs["out.svg"].data = calls[i].result
    /\ Len(SelectSeq(calls[i].result, IsDatasetPath)) = 3

\* Whether the call failed in setupProjection, in applyBounds or in a load.
FailedBeforeWrite(f) ==
  \/ f.projSetup.threw /= NoError
  \/ f.boundsCalls /= <<>> /\ f.proj.fitExtentCalls = <<>>
  \/ \E j \in 1..Len(f.loads) : f.loads[j].status = "rejected"

\* C10: a call that fails in setupProjection, in applyBounds or in the load of
\* any dataset makes no writeFile call and leaves the files as they were; it
\* rejects with the very error that was thrown; it loads no later dataset;
\* and an unsupported projection or invalid bounds fails before any load.
C10_FailureAborts ==
  \A i \in Calls :
    LET f == calls[i] IN
    FailedBeforeWrite(f) =>
      /\ f.pc = "rejected"
      /\ f.writeCalls = <<>>
      /\ f.svgStringCalls = 0
      /\ fs = InitialFs
      /\ f.projSetup.threw /= NoError =>
           f.result = f.projSetup.threw /\ f.loads = <<>> /\ f.boundsCalls = <<>>
      /\ (f.projSetup.threw = NoError /\ f.loads = <<>>) =>
           /\ f.result =
                <<"Invalid bounds format. Expected: minLat,maxLat,minLon,maxLon">>
      /\ f.loads /= <<>> =>
           /\ f.loads[Len(f.loads)].status = "rejected"
           /\ \A j \in 1..(Len(f.loads) - 1) : f.loads[j].status = "resolved"
           /\ f.result \in LoadErrors

\* The second of three loads failed: no third load, no write.
C10_Witness ==
  \E i \in Calls :
    /\ calls[i].pc = "rejected"
    /\ Len(calls[i].datasets) = 3
    /\ Len(calls[i].loads) = 2
    /\ calls[i].loads[2].status = "rejected"
    /\ calls[i].result = <<"LoadError: read failed">>
    /\ calls[i].writeCalls = <<>>

\* A call run to the end of its loop with every load resolving and nothing
\* else running: what the call does alone.
RECURSIVE RunAlone(_)
RunAlone(frame) ==
  IF frame.pc = "loading"
  THEN RunAlone(loadResolved(frame, GeoData(frame.datasets[frame.k])))
  ELSE frame

\* The text a call with these options produces when it runs alone.
AloneContent(o) == RunAlone(generateMap(o)).svgContent

IsPrefix(a, b) == Len(a) <= Len(b) /\ SubSeq(b, 1, Len(a)) = a

\* C9 as stated: whatever the interleaving, each invocation returns the
\* document it would produce alone and, on returning, has persisted exactly
\* that document in its output file.
C9_IsolatedInvocations ==
  [][\A i \in Calls :
       (calls[i].pc = "writeClose" /\ calls'[i].pc = "returned") =>
         /\ calls'[i].result = AloneContent(calls[i].options)
         /\ fs'[OutputOf(calls[i])].data = calls'[i].result]_vars

\* C9 as amended: the document under construction of a call is always a
\* prefix of the one it builds alone, and the call returns the text it
\* produces alone; its output file holds exactly that text from its return
\* on when no other invocation has the same output path.
C9_CallLocalState ==
  \A i \in Calls :
    LET f == calls[i] IN
    /\ f.pc \notin {"notcalled", "idle", "rejected"} =>
         IsPrefix(f.svg, ChildrenOf(AloneContent(f.options)))
    /\ f.pc = "returned" =>
         /\ f.result = AloneContent(f.options)
         /\ (\A j \in Calls \ {i} :
               calls[j].pc = "notcalled" \/ OutputOf(calls[j]) /= OutputOf(f))
              => fs[OutputOf(f)] = [exists |-> TRUE, data |-> f.result]

\* Call 1 has returned and out.svg holds its text, while call 2, writing to
\* map.svg, is still awaiting its second dataset.
C9_Witness ==
  /\ calls[1].pc = "returned"
  /\ OutputOf(calls[1]) = "out.svg"
  /\ fs["out.svg"].data = calls[1].result
  /\ calls[2].pc = "loading"
  /\ Len(calls[2].loads) = 2
  /\ OutputOf(calls[2]) = "map.svg"

====
